---- MODULE Spec2Model ----
(***************************************************************************)
(* Model of the BinFHE context (src/src/binfhe/lib/binfhecontext.cpp):     *)
(* parameter resolution, the bootstrapping-key map, ciphertext switching   *)
(* and lookup-table construction.                                          *)
(*                                                                         *)
(* Numbers keep their source values where they fit 32-bit integers.        *)
(* The key-switch modulus qKS (2^35 in the security-profile mode) is read  *)
(* by no operation modelled here and is left out of the parameter record.  *)
(* The noise standard deviation 3.19 is kept in hundredths (319).          *)
(***************************************************************************)
EXTENDS Integers, Sequences, FiniteSets, TLC

VARIABLES
    m_params,            \* BinFHECryptoParams (LWE + RingGSW), NoParams before resolution
    m_binfhescheme,      \* BinFHEScheme: method and number of parties
    m_timeOptimization,  \* the flag consulted by BTKeyGen
    m_BTKey_map,         \* gadget base -> bootstrapping key
    m_BTKey,             \* the active bootstrapping key
    keygenCalls,         \* number of key generations the scheme engine has run
    resolves,            \* number of GenerateBinFHEContext calls made so far
    last,                \* the last operation: its inputs, its outcome, the state before
                         \* it, whether the operation before it was a BTKeyGen that returned,
                         \* and the flag and gadget base of the last successful resolution
    btk                  \* the BTKeyGen call in progress: its position and its locals

vars == <<m_params, m_binfhescheme, m_timeOptimization, m_BTKey_map, m_BTKey,
          keygenCalls, resolves, last, btk>>

-----------------------------------------------------------------------------
(* Bounds of the model *)

MaxResolves == 2
MaxKeyGenCalls == 4
MaxConcKeyGenCalls == 7
MaxPrimeMult == 13
MaxLogQ == 32
MaxQ == 5
MaxF == 4
MaxP == 8

-----------------------------------------------------------------------------
(* Enumerations and error kinds *)

GINX == "GINX"
AP == "AP"
LMKCDEY == "LMKCDEY"
Methods == {GINX, AP, LMKCDEY}

UNIFORM_TERNARY == "UNIFORM_TERNARY"
GAUSSIAN == "GAUSSIAN"

SMALL_DIM == "SMALL_DIM"
LARGE_DIM == "LARGE_DIM"

Ok == "ok"
UnsupportedMethod == "UnsupportedMethod"
UnsupportedProfile == "UnsupportedProfile"
ModulusOutOfRange == "ModulusOutOfRange"
UnknownProfile == "UnknownProfile"
DimensionMismatch == "DimensionMismatch"
InvalidModulus == "InvalidModulus"
FunctionRangeError == "FunctionRangeError"
DivideByZero == "DivideByZero"
EngineFailure == "EngineFailure"

ResolverErrors == {UnsupportedMethod, UnsupportedProfile, ModulusOutOfRange, UnknownProfile}

-----------------------------------------------------------------------------
(* Arithmetic helpers *)

Min(S) == CHOOSE x \in S : \A y \in S : x <= y

RECURSIVE SortedSeq(_)
SortedSeq(S) == IF S = {} THEN <<>> ELSE <<Min(S)>> \o SortedSeq(S \ {Min(S)})

\* integer square root by bisection (lo*lo <= x is kept)
RECURSIVE Isqrt(_, _, _)
Isqrt(x, lo, hi) ==
    IF lo >= hi THEN lo
    ELSE LET mid == (lo + hi + 1) \div 2 IN
         IF mid * mid <= x THEN Isqrt(x, mid, hi) ELSE Isqrt(x, lo, mid - 1)

IsPrime(x) ==
    /\ x > 1
    /\ \A d \in 2..Isqrt(x, 1, IF x < 46340 THEN x ELSE 46340) : x % d # 0

RECURSIVE IsPowerOfTwo(_)
IsPowerOfTwo(x) ==
    IF x <= 0 THEN FALSE
    ELSE IF x = 1 THEN TRUE
    ELSE x % 2 = 0 /\ IsPowerOfTwo(x \div 2)

-----------------------------------------------------------------------------
(* Parameter objects *)

NoParams == [null |-> TRUE]

\* 3.19, in hundredths
STD_DEV == 319

\* value of modKS that selects the intermediate prime as key-switching modulus
PRIME == 0

\* explicit value of an enumerator outside the catalogue (a cast integer)
UNKNOWN_SET == "UNKNOWN_SET"

Entry(bits, cycl, lat, md, mks, sd, bks, bg, brk, kd) ==
    [numberBits |-> bits, cyclOrder |-> cycl, latticeParam |-> lat, mod |-> md,
     modKS |-> mks, stdDev |-> sd, baseKS |-> bks, gadgetBase |-> bg,
     baseRK |-> brk, keyDist |-> kd]

paramsMap ==
    [s \in {"TOY", "MEDIUM", "STD128_LMKCDEY", "STD128_AP", "STD128_APOPT", "STD128",
            "STD128_OPT", "STD192", "STD192_OPT", "STD256", "STD256_OPT", "STD128Q",
            "STD128Q_OPT", "STD192Q", "STD192Q_OPT", "STD256Q", "STD256Q_OPT",
            "SIGNED_MOD_TEST"} |->
      CASE s = "TOY"             -> Entry(27, 1024,   64,  512, PRIME, STD_DEV,  25, 2^9,  23, UNIFORM_TERNARY)
        [] s = "MEDIUM"          -> Entry(28, 2048,  422, 1024, 2^14,  STD_DEV, 2^7, 2^10, 32, UNIFORM_TERNARY)
        [] s = "STD128_LMKCDEY"  -> Entry(28, 2048,  458, 1024, 2^14,  STD_DEV, 2^7, 2^10, 32, GAUSSIAN)
        [] s = "STD128_AP"       -> Entry(27, 2048,  512, 1024, 2^14,  STD_DEV, 2^7, 2^9,  32, UNIFORM_TERNARY)
        [] s = "STD128_APOPT"    -> Entry(27, 2048,  502, 1024, 2^14,  STD_DEV, 2^7, 2^9,  32, UNIFORM_TERNARY)
        [] s = "STD128"          -> Entry(27, 2048,  512, 1024, 2^14,  STD_DEV, 2^7, 2^7,  32, UNIFORM_TERNARY)
        [] s = "STD128_OPT"      -> Entry(27, 2048,  502, 1024, 2^14,  STD_DEV, 2^7, 2^7,  32, UNIFORM_TERNARY)
        [] s = "STD192"          -> Entry(37, 4096, 1024, 1024, 2^19,  STD_DEV,  28, 2^13, 32, UNIFORM_TERNARY)
        [] s = "STD192_OPT"      -> Entry(37, 4096,  805, 1024, 2^15,  STD_DEV,  32, 2^13, 32, UNIFORM_TERNARY)
        [] s = "STD256"          -> Entry(29, 4096, 1024, 2048, 2^14,  STD_DEV, 2^7, 2^8,  46, UNIFORM_TERNARY)
        [] s = "STD256_OPT"      -> Entry(29, 4096,  990, 2048, 2^14,  STD_DEV, 2^7, 2^8,  46, UNIFORM_TERNARY)
        [] s = "STD128Q"         -> Entry(50, 4096, 1024, 1024, 2^25,  STD_DEV,  32, 2^25, 32, UNIFORM_TERNARY)
        [] s = "STD128Q_OPT"     -> Entry(50, 4096,  585, 1024, 2^15,  STD_DEV,  32, 2^25, 32, UNIFORM_TERNARY)
        [] s = "STD192Q"         -> Entry(35, 4096, 1024, 1024, 2^17,  STD_DEV,  64, 2^12, 32, UNIFORM_TERNARY)
        [] s = "STD192Q_OPT"     -> Entry(35, 4096,  875, 1024, 2^15,  STD_DEV,  32, 2^12, 32, UNIFORM_TERNARY)
        [] s = "STD256Q"         -> Entry(27, 4096, 2048, 2048, 2^16,  STD_DEV,  16, 2^7,  46, UNIFORM_TERNARY)
        [] s = "STD256Q_OPT"     -> Entry(27, 4096, 1225, 1024, 2^16,  STD_DEV,  16, 2^7,  32, UNIFORM_TERNARY)
        [] s = "SIGNED_MOD_TEST" -> Entry(28, 2048,  512, 1024, PRIME, STD_DEV,  25, 2^7,  23, UNIFORM_TERNARY)]

Catalogue == DOMAIN paramsMap
ParamSets == Catalogue \cup {UNKNOWN_SET}

\* The gadget-power map RingGSWCryptoParams precomputes: the alternate gadget
\* bases of the multi-base optimization when it is enabled, none otherwise.
GPowerMap(signEval) == IF signEval THEN {2^14, 2^18, 2^27} ELSE {}

\* LWECryptoParams + RingGSWCryptoParams, paired in one BinFHECryptoParams
CryptoParams(n, N, q, Q, std, baseKS, baseG, baseR, method, keyDist, signEval) ==
    [n |-> n, N |-> N, q |-> q, Q |-> Q, std |-> std, baseKS |-> baseKS,
     baseG |-> baseG, baseR |-> baseR, method |-> method, keyDist |-> keyDist,
     gpowermap |-> GPowerMap(signEval)]

BinFHEScheme(method, parties) == [method |-> method, parties |-> parties]

\* Minimal ring dimension of the security table for a ternary secret at
\* 128-bit classical security: 1024 up to 27 bits, 2048 up to 54 bits.
FindRingDim(logQprime) == IF logQprime <= 27 THEN 1024 ELSE 2048

\* PreviousPrime(FirstPrime(bits, m), m) is a prime below 2^bits congruent to
\* 1 modulo m.  The moduli of the source (27 to 54 bits) exceed 32-bit
\* integers; the search is modelled by its possible outcomes among the first
\* MaxPrimeMult candidates k*m + 1.
\* The primes k*m + 1 are tabulated once for the power-of-two orders.
CyclotomicOrders == {2^e : e \in 10..13}

PrimeTable ==
    {x \in {k * m + 1 : k \in 1..MaxPrimeMult, m \in CyclotomicOrders} : IsPrime(x)}

PrimeSearch(bits, m) ==
    {x \in {k * m + 1 : k \in 1..MaxPrimeMult} :
        /\ IF m \in CyclotomicOrders THEN x \in PrimeTable ELSE IsPrime(x)
        /\ (bits >= 31 \/ x < 2^bits)}

-----------------------------------------------------------------------------
(* Keys *)

NullKey == [gen |-> FALSE, id |-> 0, params |-> NoParams]

\* BinFHEScheme::KeyGen(params, sk, mode): a fresh key under the given parameters
KeyGen(params, id) == [gen |-> TRUE, id |-> id, params |-> params]

\* no BTKeyGen in progress
Idle == [pc |-> "idle", temp |-> 0, gpowermap |-> <<>>, it |-> 0]

Snapshot == [params |-> m_params, timeOpt |-> m_timeOptimization,
             map |-> m_BTKey_map, key |-> m_BTKey]

EmptyMap == [b \in {} |-> NullKey]

Init ==
    /\ m_params = NoParams
    /\ m_binfhescheme = NoParams
    /\ m_timeOptimization = FALSE
    /\ m_BTKey_map = EmptyMap
    /\ m_BTKey = NullKey
    /\ keygenCalls = 0
    /\ resolves = 0
    /\ last = [op |-> "new", err |-> Ok, args |-> <<>>, out |-> <<>>,
               pre |-> [params |-> NoParams, timeOpt |-> FALSE, map |-> EmptyMap, key |-> NullKey],
               prevBTKeyGen |-> FALSE,
               resolved |-> [flag |-> FALSE, baseG |-> 0]]
    /\ btk = Idle

-----------------------------------------------------------------------------
(* 4.1 Numeric parameter resolver *)

ResolveOps ==
    {"GenerateBinFHEContextExplicit", "GenerateBinFHEContextSec", "GenerateBinFHEContextNamed"}

\* The flag a resolution stands for: the argument timeOptimization of the
\* security-profile mode; the other two modes have no such argument and stand
\* for the default of the member, false.
ResolvedFlag(op, args) ==
    IF op = "GenerateBinFHEContextSec" THEN args.timeOptimization ELSE FALSE

Done(op, err, args, out) ==
    last' = [op |-> op, err |-> err, args |-> args, out |-> out, pre |-> Snapshot,
             prevBTKeyGen |-> (last.op = "BTKeyGen" /\ last.err = Ok),
             resolved |-> IF op \in ResolveOps /\ err = Ok
                          THEN [flag |-> ResolvedFlag(op, args), baseG |-> m_params'.baseG]
                          ELSE last.resolved]

\* GenerateBinFHEContext(n, N, q, Q, std, baseKS, baseG, baseR, method): no validation
GenerateBinFHEContextExplicit(n, N, q, Q, std, baseKS, baseG, baseR, method) ==
    /\ resolves < MaxResolves
    /\ resolves' = resolves + 1
    /\ m_params' = CryptoParams(n, N, q, Q, std, baseKS, baseG, baseR, method,
                                UNIFORM_TERNARY, TRUE)
    /\ m_binfhescheme' = BinFHEScheme(method, 0)
    /\ Done("GenerateBinFHEContextExplicit", Ok,
            [n |-> n, N |-> N, q |-> q, Q |-> Q, baseG |-> baseG, baseR |-> baseR,
             method |-> method], <<>>)
    /\ UNCHANGED <<m_timeOptimization, m_BTKey_map, m_BTKey, keygenCalls, btk>>

\* SecValidate with the upper limit of logQ off by one
SecValidate_offByOne(set, logQ, method) ==
    IF GINX # method THEN UnsupportedMethod
    ELSE IF set # "STD128" /\ set # "TOY" THEN UnsupportedProfile
    ELSE IF logQ > 30 THEN ModulusOutOfRange
    ELSE IF logQ < 11 THEN ModulusOutOfRange
    ELSE Ok

\* the argument checks of the security-profile mode, in the order of the code
SecValidate(set, logQ, method) ==
    IF GINX # method THEN UnsupportedMethod
    ELSE IF set # "STD128" /\ set # "TOY" THEN UnsupportedProfile
    ELSE IF logQ > 29 THEN ModulusOutOfRange
    ELSE IF logQ < 11 THEN ModulusOutOfRange
    ELSE Ok

\* SecBaseG with the shift dropped in the first range (14 for 1 << 14)
SecBaseG_noShift(logQ) ==
    IF logQ > 25 THEN 14
    ELSE IF logQ > 16 THEN 2^18
    ELSE IF logQ > 11 THEN 2^27
    ELSE 2^5

\* the gadget base chosen from logQ
SecBaseG(logQ) ==
    IF logQ > 25 THEN 2^14
    ELSE IF logQ > 16 THEN 2^18
    ELSE IF logQ > 11 THEN 2^27
    ELSE 2^5

\* the bit length of the prime search
SecLogQprime(logQ) == IF logQ > 11 THEN 54 ELSE 27

\* the refresh-key base of the security-profile mode
SecBaseR == 23

\* the key-switching base of the security-profile mode
SecBaseKS == 32

SecLatticeParam(set) == IF set = "TOY" THEN 32 ELSE 1305

SecRingDim(logQ, N) ==
    IF N >= FindRingDim(SecLogQprime(logQ)) THEN N ELSE FindRingDim(SecLogQprime(logQ))

SecParams(set, arbFunc, logQ, N, method, timeOptimization, Q) ==
    CryptoParams(SecLatticeParam(set), SecRingDim(logQ, N),
                 IF arbFunc THEN SecRingDim(logQ, N) ELSE 2 * SecRingDim(logQ, N),
                 Q, STD_DEV, SecBaseKS, SecBaseG(logQ), SecBaseR, method,
                 UNIFORM_TERNARY, (logQ # 11) /\ timeOptimization)

EngineOutcomes == {"ok", "ringDimFails", "primeFails"}

\* GenerateBinFHEContext(set, arbFunc, logQ, N, method, timeOptimization).
\* engine is the outcome of the two external searches (FindRingDim, the prime
\* search): both run after m_timeOptimization has been assigned.
GenerateBinFHEContextSec(set, arbFunc, logQ, N, method, timeOptimization, engine) ==
    LET args == [set |-> set, arbFunc |-> arbFunc, logQ |-> logQ, N |-> N,
                 method |-> method, timeOptimization |-> timeOptimization,
                 engine |-> engine]
        err  == SecValidate(set, logQ, method)
        cand == PrimeSearch(SecLogQprime(logQ), 2 * SecRingDim(logQ, N))
    IN
    /\ resolves < MaxResolves
    /\ resolves' = resolves + 1
    /\ UNCHANGED <<m_BTKey_map, m_BTKey, keygenCalls, btk>>
    /\ IF err # Ok
       THEN /\ Done("GenerateBinFHEContextSec", err, args, <<>>)
            /\ UNCHANGED <<m_params, m_binfhescheme, m_timeOptimization>>
       ELSE /\ m_timeOptimization' = timeOptimization
            /\ IF engine # "ok" \/ cand = {}
               THEN /\ Done("GenerateBinFHEContextSec", EngineFailure, args, <<>>)
                    /\ UNCHANGED <<m_params, m_binfhescheme>>
               ELSE \E Q \in cand :
                    /\ m_params' = SecParams(set, arbFunc, logQ, N, method,
                                             timeOptimization, Q)
                    /\ m_binfhescheme' = BinFHEScheme(method, 0)
                    /\ Done("GenerateBinFHEContextSec", Ok, args, <<>>)

\* NamedParams with the ring dimension a quarter of the cyclotomic order
NamedParams_quarter(set, method, Q) ==
    LET params == paramsMap[set] IN
    CryptoParams(params.latticeParam, params.cyclOrder \div 4, params.mod, Q,
                 params.stdDev, params.baseKS, params.gadgetBase, params.baseRK,
                 method, params.keyDist, FALSE)

\* the parameters of a catalogue entry
NamedParams(set, method, Q) ==
    LET params == paramsMap[set] IN
    CryptoParams(params.latticeParam, params.cyclOrder \div 2, params.mod, Q,
                 params.stdDev, params.baseKS, params.gadgetBase, params.baseRK,
                 method, params.keyDist, FALSE)

\* GenerateBinFHEContext(set, method, num_of_parties)
GenerateBinFHEContextNamed(set, method, num_of_parties, engine) ==
    LET args == [set |-> set, method |-> method, num_of_parties |-> num_of_parties,
                 engine |-> engine]
    IN
    /\ resolves < MaxResolves
    /\ resolves' = resolves + 1
    /\ UNCHANGED <<m_timeOptimization, m_BTKey_map, m_BTKey, keygenCalls, btk>>
    /\ IF set \notin DOMAIN paramsMap
       THEN /\ Done("GenerateBinFHEContextNamed", UnknownProfile, args, <<>>)
            /\ UNCHANGED <<m_params, m_binfhescheme>>
       ELSE LET cand == PrimeSearch(paramsMap[set].numberBits, paramsMap[set].cyclOrder) IN
            IF engine # "ok" \/ cand = {}
            THEN /\ Done("GenerateBinFHEContextNamed", EngineFailure, args, <<>>)
                 /\ UNCHANGED <<m_params, m_binfhescheme>>
            ELSE \E Q \in cand :
                 /\ m_params' = NamedParams(set, method, Q)
                 /\ m_binfhescheme' = BinFHEScheme(method, num_of_parties)
                 /\ Done("GenerateBinFHEContextNamed", Ok, args, <<>>)

\* Inputs of the resolver specification: every catalogue entry and every logQ
ResolveSecAll ==
    /\ resolves = 0
    /\ \E set \in ParamSets, arbFunc \in BOOLEAN, logQ \in 0..MaxLogQ, N \in {0, 4096},
          method \in Methods, timeOptimization \in BOOLEAN, engine \in EngineOutcomes :
           GenerateBinFHEContextSec(set, arbFunc, logQ, N, method, timeOptimization, engine)

ResolveNamedAll ==
    /\ resolves = 0
    /\ \E set \in ParamSets, method \in Methods, parties \in {1, 2},
          engine \in {"ok", "primeFails"} :
           GenerateBinFHEContextNamed(set, method, parties, engine)

NextResolve == ResolveSecAll \/ ResolveNamedAll

SpecResolve == Init /\ [][NextResolve]_vars

-----------------------------------------------------------------------------
(* 4.2 Key store *)

\* RingGSWCryptoParams::Change_BaseG
Change_BaseG(params, base) == [params EXCEPT !.baseG = base]

\* m_BTKey_map[k] as an lvalue-less read: std::map::operator[] inserts a
\* default-constructed key when k is absent
MapIndex(map, k) ==
    IF k \in DOMAIN map THEN map
    ELSE [b \in DOMAIN map \cup {k} |-> IF b = k THEN NullKey ELSE map[b]]

MapPut(map, k, key) == [b \in DOMAIN map \cup {k} |-> IF b = k THEN key ELSE map[b]]

\* the bases the loop of BTKeyGen visits, in the order of std::map iteration
SweepBases(params, timeOpt) == IF timeOpt THEN SortedSeq(params.gpowermap) ELSE <<>>

\* the key map after the first k iterations of the loop, the i-th key being
\* generated under base seq[i] by the engine's (firstId + i)-th key generation
SweepMap(map, params, seq, k, firstId) ==
    [b \in DOMAIN map \cup {seq[j] : j \in 1..k} |->
        IF \E j \in 1..k : seq[j] = b
        THEN KeyGen(Change_BaseG(params, b), firstId + (CHOOSE j \in 1..k : seq[j] = b))
        ELSE map[b]]

\* BTKeyGen(sk, keygenMode).  failAt = 0: every key generation of the engine
\* returns; failAt = i > 0: the i-th key generation of this call throws.
BTKeyGen(failAt) ==
    LET temp   == m_params.baseG
        seq    == SweepBases(m_params, m_timeOptimization)
        swept  == SweepMap(m_BTKey_map, m_params, seq, Len(seq), keygenCalls)
        ncalls == IF DOMAIN swept # {} THEN Len(seq) ELSE 1
    IN
    /\ m_params # NoParams
    /\ failAt <= ncalls
    /\ keygenCalls + ncalls <= MaxKeyGenCalls
    /\ UNCHANGED <<m_binfhescheme, m_timeOptimization, resolves, btk>>
    /\ IF failAt # 0 /\ failAt <= Len(seq)
       THEN \* the loop is left by the exception: no Change_BaseG(temp)
            /\ m_params' = Change_BaseG(m_params, seq[failAt])
            /\ m_BTKey_map' = SweepMap(m_BTKey_map, m_params, seq, failAt - 1, keygenCalls)
            /\ m_BTKey' = m_BTKey
            /\ keygenCalls' = keygenCalls + failAt
            /\ Done("BTKeyGen", EngineFailure, [failAt |-> failAt],
                    [temp |-> temp, calls |-> failAt])
       ELSE IF DOMAIN swept # {}
       THEN /\ m_params' = Change_BaseG(m_params, temp)
            /\ m_BTKey_map' = MapIndex(swept, temp)
            /\ m_BTKey' = MapIndex(swept, temp)[temp]
            /\ keygenCalls' = keygenCalls + Len(seq)
            /\ Done("BTKeyGen", Ok, [failAt |-> failAt],
                    [temp |-> temp, calls |-> Len(seq)])
       ELSE IF failAt # 0
       THEN /\ UNCHANGED <<m_params, m_BTKey_map, m_BTKey>>
            /\ keygenCalls' = keygenCalls + 1
            /\ Done("BTKeyGen", EngineFailure, [failAt |-> failAt],
                    [temp |-> temp, calls |-> 1])
       ELSE /\ m_params' = m_params
            /\ m_BTKey' = KeyGen(m_params, keygenCalls + 1)
            /\ m_BTKey_map' = MapPut(m_BTKey_map, temp, KeyGen(m_params, keygenCalls + 1))
            /\ keygenCalls' = keygenCalls + 1
            /\ Done("BTKeyGen", Ok, [failAt |-> failAt],
                    [temp |-> temp, calls |-> 1])

\* BinFHEScheme::KeyGenTest, MultiPartyKeyGen and MultipartyBTKeyGen of the
\* scheme engine: each returns a fresh key under the given parameters
SchemeKeyGenTest(params, id) == [gen |-> TRUE, id |-> id, params |-> params]

SchemeMultiPartyKeyGen(params, id, leadFlag) == [gen |-> TRUE, id |-> id, params |-> params]

SchemeMultipartyBTKeyGen(params, id, parties, leadFlag) ==
    [gen |-> TRUE, id |-> id, params |-> params]

\* m_BTKey = key; m_BTKey_map[temp] = m_BTKey, or nothing when the engine throws
StoreActiveKey(op, key, fails, args) ==
    LET temp == m_params.baseG IN
    /\ keygenCalls < MaxKeyGenCalls
    /\ keygenCalls' = keygenCalls + 1
    /\ UNCHANGED <<m_params, m_binfhescheme, m_timeOptimization, resolves, btk>>
    /\ IF fails
       THEN /\ UNCHANGED <<m_BTKey_map, m_BTKey>>
            /\ Done(op, EngineFailure, args, [temp |-> temp, calls |-> 1])
       ELSE /\ m_BTKey' = key
            /\ m_BTKey_map' = MapPut(m_BTKey_map, temp, key)
            /\ Done(op, Ok, args, [temp |-> temp, calls |-> 1])

\* BTKeyGenTest(sk, skNPoly, acrs, kskey, keygenMode)
BTKeyGenTest(fails) ==
    /\ m_params # NoParams
    /\ StoreActiveKey("BTKeyGenTest", SchemeKeyGenTest(m_params, keygenCalls + 1), fails,
                      [fails |-> fails])

\* MultiPartyKeyGen(LWEsk, zN, publicKey, prevkskey, leadFlag)
MultiPartyKeyGen(leadFlag, fails) ==
    /\ m_params # NoParams
    /\ StoreActiveKey("MultiPartyKeyGen",
                      SchemeMultiPartyKeyGen(m_params, keygenCalls + 1, leadFlag), fails,
                      [leadFlag |-> leadFlag, fails |-> fails])

\* MultipartyBTKeyGen(sk, prevbtkey, zkey, acrsauto, rgswenc0, prevkskey, leadFlag)
MultipartyBTKeyGen(leadFlag, fails) ==
    /\ m_params # NoParams
    /\ StoreActiveKey("MultipartyBTKeyGen",
                      SchemeMultipartyBTKeyGen(m_params, keygenCalls + 1,
                                               m_binfhescheme.parties, leadFlag), fails,
                      [leadFlag |-> leadFlag, fails |-> fails])

\* LWE ciphertexts carry their dimension and modulus
Ciphertext(length, modulus) == [length |-> length, modulus |-> modulus]

\* the check of SwitchCTtoqn
SwitchCheck(params, ct) ==
    IF (ct.length # params.N) /\ (ct.modulus # params.Q) THEN DimensionMismatch ELSE Ok

\* SwitchCTtoqn(ksk, ct): the engine's switch runs unless the check throws
SwitchCTtoqn(ct) ==
    /\ m_params # NoParams
    /\ Done("SwitchCTtoqn", SwitchCheck(m_params, ct), [ct |-> ct],
            [engineSwitch |-> SwitchCheck(m_params, ct) = Ok])
    /\ UNCHANGED <<m_params, m_binfhescheme, m_timeOptimization, m_BTKey_map, m_BTKey,
                   keygenCalls, resolves, btk>>

\* Encrypt(pk, m, output, p, mod): a ciphertext of dimension N and modulus Q
\* (mod = 0) or mod, switched down when output is SMALL_DIM
EncryptPK(output, mod) ==
    LET ct == Ciphertext(m_params.N, IF mod = 0 THEN m_params.Q ELSE mod) IN
    /\ m_params # NoParams
    /\ IF output = SMALL_DIM
       THEN Done("Encrypt", SwitchCheck(m_params, ct), [ct |-> ct, output |-> output],
                 [engineSwitch |-> SwitchCheck(m_params, ct) = Ok])
       ELSE Done("Encrypt", Ok, [ct |-> ct, output |-> output], [engineSwitch |-> FALSE])
    /\ UNCHANGED <<m_params, m_binfhescheme, m_timeOptimization, m_BTKey_map, m_BTKey,
                   keygenCalls, resolves, btk>>

\* Encrypt(sk, m, output, p, mod) yields dimension n and modulus q (mod = 0) or
\* mod; the public-key Encrypt yields dimension N and modulus Q or mod.
Ciphertexts ==
    {Ciphertext(l, md) : l \in {m_params.n, m_params.N}, md \in {m_params.q, m_params.Q}}

-----------------------------------------------------------------------------
(* 4.3 Lookup-table construction *)

NegInf == "-inf"

\* floor(log2(p)) and ceil(log2(p)) of the double p; log2(0) is -infinity,
\* which floor and ceil leave unchanged
FloorLog2(p) == IF p = 0 THEN NegInf ELSE CHOOSE k \in 0..31 : 2^k <= p /\ (k = 30 \/ p < 2^(k + 1))

CeilLog2(p) == IF p = 0 THEN NegInf ELSE CHOOSE k \in 0..31 : p <= 2^k /\ (k = 0 \/ 2^(k - 1) < p)

\* the first index at which the loop throws FunctionRangeError, or -1
FirstOutOfRange(f, q, p, interval) ==
    IF \E i \in 0..(q - 1) : f[i \div interval] >= p
    THEN Min({i \in 0..(q - 1) : f[i \div interval] >= p})
    ELSE -1

\* GenerateLUTviaFunction(f, p) in a context of ciphertext modulus q: the
\* error, the table returned and the arguments f was evaluated at
LUTviaFunction(f, p, q) ==
    IF CeilLog2(p) # FloorLog2(p)
    THEN [err |-> InvalidModulus, table |-> <<>>, evaluated |-> {}]
    ELSE IF p = 0                      \* interval = q / p
    THEN [err |-> DivideByZero, table |-> <<>>, evaluated |-> {}]
    ELSE LET interval == q \div p IN
         IF q = 0
         THEN [err |-> Ok, table |-> <<>>, evaluated |-> {}]
         ELSE IF interval = 0          \* NativeInteger(0) / interval
         THEN [err |-> DivideByZero, table |-> <<>>, evaluated |-> {}]
         ELSE LET stop == FirstOutOfRange(f, q, p, interval) IN
              IF stop >= 0
              THEN [err |-> FunctionRangeError, table |-> <<>>,
                    evaluated |-> {i \div interval : i \in 0..stop}]
              ELSE [err |-> Ok,
                    table |-> [i \in 1..q |-> f[(i - 1) \div interval] * interval],
                    evaluated |-> {i \div interval : i \in 0..(q - 1)}]

GenerateLUTviaFunction(f, p) ==
    LET r == LUTviaFunction(f, p, m_params.q) IN
    /\ m_params # NoParams
    /\ Done("GenerateLUTviaFunction", r.err, [f |-> f, p |-> p, q |-> m_params.q],
            [table |-> r.table, evaluated |-> r.evaluated])
    /\ UNCHANGED <<m_params, m_binfhescheme, m_timeOptimization, m_BTKey_map, m_BTKey,
                   keygenCalls, resolves, btk>>

\* Contexts of every small ciphertext modulus, by the explicit mode
ResolveSmallQ ==
    /\ resolves = 0
    /\ \E q \in 0..MaxQ :
           GenerateBinFHEContextExplicit(32, 1024, q, 12289, STD_DEV, 25, 2^7, 23, GINX)

\* the table is built once per behaviour, on the freshly resolved context
DoGenerateLUT ==
    /\ m_params # NoParams
    /\ last.op = "GenerateBinFHEContextExplicit"
    /\ \E p \in 0..MaxP, f \in [0..(MaxQ - 1) -> 0..MaxF] : GenerateLUTviaFunction(f, p)

NextLUT == ResolveSmallQ \/ DoGenerateLUT

SpecLUT == Init /\ [][NextLUT]_vars

-----------------------------------------------------------------------------
(* BTKeyGen statement by statement, with evaluations on other threads *)

\* auto temp = GetBaseG(); with m_timeOptimization, auto gpowermap = GetGPowerMap()
BTKeyGenEnter ==
    /\ m_params # NoParams
    /\ btk.pc = "idle"
    /\ keygenCalls + Len(SweepBases(m_params, m_timeOptimization)) + 1 <= MaxConcKeyGenCalls
    /\ btk' = [pc |-> IF m_timeOptimization THEN "loop" ELSE "select",
               temp |-> m_params.baseG,
               gpowermap |-> SweepBases(m_params, m_timeOptimization),
               it |-> 1]
    /\ UNCHANGED <<m_params, m_binfhescheme, m_timeOptimization, m_BTKey_map, m_BTKey,
                   keygenCalls, resolves, last>>

\* RGSWParams->Change_BaseG(it->first): the shared parameters are written
BTKeyGenChangeBase ==
    /\ btk.pc = "loop"
    /\ btk.it <= Len(btk.gpowermap)
    /\ m_params' = Change_BaseG(m_params, btk.gpowermap[btk.it])
    /\ btk' = [btk EXCEPT !.pc = "keygen"]
    /\ UNCHANGED <<m_binfhescheme, m_timeOptimization, m_BTKey_map, m_BTKey,
                   keygenCalls, resolves, last>>

\* m_BTKey_map[it->first] = m_binfhescheme->KeyGen(m_params, sk, keygenMode); ++it
BTKeyGenSweepKey ==
    /\ btk.pc = "keygen"
    /\ m_BTKey_map' = MapPut(m_BTKey_map, btk.gpowermap[btk.it],
                             KeyGen(m_params, keygenCalls + 1))
    /\ keygenCalls' = keygenCalls + 1
    /\ btk' = [btk EXCEPT !.pc = "loop", !.it = btk.it + 1]
    /\ UNCHANGED <<m_params, m_binfhescheme, m_timeOptimization, m_BTKey, resolves, last>>

\* RGSWParams->Change_BaseG(temp), after the loop
BTKeyGenRestore ==
    /\ btk.pc = "loop"
    /\ btk.it > Len(btk.gpowermap)
    /\ m_params' = Change_BaseG(m_params, btk.temp)
    /\ btk' = [btk EXCEPT !.pc = "select"]
    /\ UNCHANGED <<m_binfhescheme, m_timeOptimization, m_BTKey_map, m_BTKey,
                   keygenCalls, resolves, last>>

\* the choice between m_BTKey_map[temp] and a fresh key, and the return
BTKeyGenSelect ==
    /\ btk.pc = "select"
    /\ btk' = Idle
    /\ IF DOMAIN m_BTKey_map # {}
       THEN /\ m_BTKey_map' = MapIndex(m_BTKey_map, btk.temp)
            /\ m_BTKey' = MapIndex(m_BTKey_map, btk.temp)[btk.temp]
            /\ keygenCalls' = keygenCalls
       ELSE /\ m_BTKey' = KeyGen(m_params, keygenCalls + 1)
            /\ m_BTKey_map' = MapPut(m_BTKey_map, btk.temp, KeyGen(m_params, keygenCalls + 1))
            /\ keygenCalls' = keygenCalls + 1
    /\ Done("BTKeyGen", Ok, [failAt |-> 0], [temp |-> btk.temp, calls |-> 0])
    /\ UNCHANGED <<m_params, m_binfhescheme, m_timeOptimization, resolves>>

\* What an evaluation reads: m_params and m_BTKey, at whatever position the
\* BTKeyGen in progress has reached.  The reads are not synchronised with the
\* writes of BTKeyGen; each statement of BTKeyGen is one step, so a read sees
\* the value before or after a write.
Observe(op) ==
    /\ m_params # NoParams
    /\ Done(op, Ok, <<>>, [baseG |-> m_params.baseG, key |-> m_BTKey, during |-> btk.pc])
    /\ UNCHANGED <<m_params, m_binfhescheme, m_timeOptimization, m_BTKey_map, m_BTKey,
                   keygenCalls, resolves, btk>>

\* EvalBinGate(gate, ct1, ct2) and Bootstrap(ct)
EvalBinGate == Observe("EvalBinGate")

\* EvalFunc(ct, LUT)
EvalFunc == Observe("EvalFunc")

-----------------------------------------------------------------------------
(* The context as a state machine *)

ResolveExplicit ==
    /\ resolves < MaxResolves
    /\ \E baseG \in {2^7, 2^14} :
           GenerateBinFHEContextExplicit(32, 1024, 512, 12289, STD_DEV, 25, baseG, 23, GINX)

\* one call per outcome of the argument checks, and logQ on both sides of 11
SecCalls ==
    {<<"TOY", 11, GINX>>, <<"TOY", 12, GINX>>, <<"TOY", 10, GINX>>,
     <<"MEDIUM", 12, GINX>>, <<"TOY", 12, AP>>}

ResolveSec ==
    /\ resolves < MaxResolves
    /\ \E c \in SecCalls, timeOptimization \in BOOLEAN, engine \in {"ok", "primeFails"} :
           GenerateBinFHEContextSec(c[1], FALSE, c[2], 0, c[3], timeOptimization, engine)

ResolveNamed ==
    /\ resolves < MaxResolves
    /\ \E set \in {"TOY", "STD128", UNKNOWN_SET}, engine \in {"ok", "primeFails"} :
           GenerateBinFHEContextNamed(set, GINX, 2, engine)

DoBTKeyGen == \E failAt \in 0..3 : BTKeyGen(failAt)

DoBTKeyGenTest == \E fails \in BOOLEAN : BTKeyGenTest(fails)

DoMultiPartyKeyGen == \E leadFlag \in BOOLEAN, fails \in BOOLEAN : MultiPartyKeyGen(leadFlag, fails)

DoMultipartyBTKeyGen ==
    \E leadFlag \in BOOLEAN, fails \in BOOLEAN : MultipartyBTKeyGen(leadFlag, fails)

DoSwitchCTtoqn == m_params # NoParams /\ \E ct \in Ciphertexts : SwitchCTtoqn(ct)

DoEncryptPK ==
    /\ m_params # NoParams
    /\ \E output \in {SMALL_DIM, LARGE_DIM}, mod \in {0, m_params.q} : EncryptPK(output, mod)

Next ==
    \/ ResolveExplicit
    \/ ResolveSec
    \/ ResolveNamed
    \/ DoBTKeyGen
    \/ DoBTKeyGenTest
    \/ DoMultiPartyKeyGen
    \/ DoMultipartyBTKeyGen
    \/ DoSwitchCTtoqn
    \/ DoEncryptPK

Spec == Init /\ [][Next]_vars

\* Resolutions while no BTKeyGen is in progress, BTKeyGen by statements, and
\* evaluations at any time
ResolveIdle == btk.pc = "idle" /\ (ResolveExplicit \/ ResolveSec)

NextConc ==
    \/ ResolveIdle
    \/ BTKeyGenEnter
    \/ BTKeyGenChangeBase
    \/ BTKeyGenSweepKey
    \/ BTKeyGenRestore
    \/ BTKeyGenSelect
    \/ EvalBinGate
    \/ EvalFunc

SpecConc == Init /\ [][NextConc]_vars

-----------------------------------------------------------------------------
(* Properties of the resolver, under SpecResolve *)

SecCalled == last.op = "GenerateBinFHEContextSec"
NamedCalled == last.op = "GenerateBinFHEContextNamed"

\* C6: in the security-profile mode an unsupported method is reported as
\* UnsupportedMethod, then an unsupported profile as UnsupportedProfile, then
\* logQ outside 11..29 as ModulusOutOfRange; with CGGI, a supported profile and
\* logQ in 11..29 no argument check fails and, the external searches returning,
\* the call succeeds and installs the parameters.
C6_LogQRange ==
    SecCalled =>
        LET a == last.args
            supported == a.set \in {"STD128", "TOY"}
        IN
        /\ (a.method # GINX => last.err = UnsupportedMethod)
        /\ (a.method = GINX /\ ~supported => last.err = UnsupportedProfile)
        /\ (a.method = GINX /\ supported /\ (a.logQ < 11 \/ a.logQ > 29)
               => last.err = ModulusOutOfRange)
        /\ (a.method = GINX /\ supported /\ a.logQ \in 11..29
               => /\ last.err \notin ResolverErrors
                  /\ (a.engine = "ok" => last.err = Ok /\ m_params # NoParams))

C6_Witness ==
    /\ SecCalled
    /\ last.args.logQ = 29
    /\ last.err = Ok
    /\ m_params # NoParams

\* C9 as stated: every catalogue profile resolves to n < N, q <= Q, std > 0.
C9_Original ==
    (NamedCalled /\ last.err = Ok) =>
        /\ m_params.n < m_params.N
        /\ m_params.q <= m_params.Q
        /\ m_params.std > 0

\* C9 amended: every catalogue profile resolves to n <= N, with n < N for every
\* profile except STD256Q (where n = N = 2048), N = cyclotomic order / 2,
\* q <= Q and std > 0.
C9_Amended ==
    (NamedCalled /\ last.err = Ok) =>
        /\ m_params.n <= m_params.N
        /\ (last.args.set # "STD256Q" => m_params.n < m_params.N)
        /\ (last.args.set = "STD256Q" => m_params.n = m_params.N)
        /\ 2 * m_params.N = paramsMap[last.args.set].cyclOrder
        /\ m_params.q <= m_params.Q
        /\ m_params.std > 0

C9_Witness ==
    /\ NamedCalled
    /\ last.err = Ok
    /\ last.args.set = "STD256Q"
    /\ m_params.n = 2048
    /\ m_params.N = 2048

\* C10 as stated: gadget base and refresh-key base are both powers of two in
\* every parameter value of the security-profile and the named-profile mode.
C10_Original ==
    ((SecCalled \/ NamedCalled) /\ last.err = Ok) =>
        /\ IsPowerOfTwo(m_params.baseG)
        /\ IsPowerOfTwo(m_params.baseR)

\* C10 amended: the gadget base is a power of two in both modes; the
\* refresh-key base is 23 in the security-profile mode and one of 23, 32, 46
\* in the named-profile mode, a power of two only when it is 32.
C10_Amended ==
    ((SecCalled \/ NamedCalled) /\ last.err = Ok) =>
        /\ IsPowerOfTwo(m_params.baseG)
        /\ m_params.baseR \in {23, 32, 46}
        /\ (SecCalled => m_params.baseR = 23)
        /\ (IsPowerOfTwo(m_params.baseR) <=> m_params.baseR = 32)

C10_Witness ==
    /\ SecCalled
    /\ last.err = Ok
    /\ last.args.logQ = 26
    /\ m_params.baseG = 2^14
    /\ m_params.baseR = 23

-----------------------------------------------------------------------------
(* Properties of the key store and of ciphertext switching, under Spec *)

BTKeyGenReturned == last.op = "BTKeyGen" /\ last.err = Ok

SwitchDownCalled ==
    \/ last.op = "SwitchCTtoqn"
    \/ last.op = "Encrypt" /\ last.args.output = SMALL_DIM

\* C1: SwitchDown fails with DimensionMismatch whenever the ciphertext's
\* dimension is not N or its modulus is not Q (one mismatching tag is enough),
\* and the engine's switch runs only for dimension N and modulus Q.
C1_SwitchDownRejects ==
    SwitchDownCalled =>
        LET ct == last.args.ct
            mismatch == ct.length # m_params.N \/ ct.modulus # m_params.Q
        IN
        /\ (mismatch => last.err = DimensionMismatch)
        /\ (last.out.engineSwitch => ~mismatch)

\* C2: after BTKeyGen returns on a context whose key map was empty, the map
\* keys are exactly the bases of the gadget-power map when time-optimization
\* is enabled, and exactly the active base otherwise.
C2_MapKeysAfterBTKeyGen ==
    (BTKeyGenReturned /\ DOMAIN last.pre.map = {}) =>
        IF m_timeOptimization
        THEN DOMAIN m_BTKey_map = m_params.gpowermap
        ELSE DOMAIN m_BTKey_map = {last.out.temp}

\* C3: after every BTKeyGen call that returns, the active key is the map entry
\* under the base that was active at the start, that entry is a key the engine
\* generated under that base, and the parameters' base is again that base.
C3_ActiveKeyGenerated ==
    BTKeyGenReturned =>
        LET temp == last.out.temp IN
        /\ temp \in DOMAIN m_BTKey_map
        /\ m_BTKey = m_BTKey_map[temp]
        /\ m_BTKey.gen
        /\ m_BTKey.params.baseG = temp
        /\ m_params.baseG = temp

\* C4: without time-optimization BTKeyGen reuses the stored key, generating
\* nothing, when the map has an entry for the active base; it generates a key
\* when the map has no entry for that base, whatever else the map holds; a
\* second call in a row changes neither the map nor the active key.
C4_MemoizeByBase ==
    (BTKeyGenReturned /\ ~m_timeOptimization) =>
        LET temp == last.out.temp IN
        /\ (temp \in DOMAIN last.pre.map =>
               /\ last.out.calls = 0
               /\ m_BTKey = last.pre.map[temp]
               /\ m_BTKey_map = last.pre.map)
        /\ (temp \notin DOMAIN last.pre.map =>
               /\ last.out.calls = 1
               /\ m_BTKey_map[temp] = KeyGen(m_params, keygenCalls)
               /\ m_BTKey = m_BTKey_map[temp])
        /\ (last.prevBTKeyGen =>
               /\ m_BTKey_map = last.pre.map
               /\ m_BTKey = last.pre.key)

\* C5: an operation that fails leaves the parameters (gadget base included),
\* the time-optimization flag, the key map and the active key as they were.
C5_FailureLeavesState == (last.err # Ok) => (Snapshot = last.pre)

-----------------------------------------------------------------------------
(* Properties of lookup-table construction, under SpecLUT *)

LUTCalled == last.op = "GenerateLUTviaFunction"

\* C7: GenerateLUTviaFunction fails with InvalidModulus, before evaluating f,
\* for every p that is not an exact power of two (p = 0 included), and never
\* fails with InvalidModulus for a power of two.
C7_InvalidModulus ==
    LUTCalled =>
        /\ (~IsPowerOfTwo(last.args.p) =>
               last.err = InvalidModulus /\ last.out.evaluated = {})
        /\ (IsPowerOfTwo(last.args.p) => last.err # InvalidModulus)

\* f maps the samples 0..p-1 into Z_p
MapsIntoZp(f, p) == \A x \in (0..(p - 1)) \cap DOMAIN f : f[x] < p

\* C8: for a power of two p, f is evaluated at samples in 0..p-1 only; if f
\* maps into Z_p the call returns a table of q entries with entry i equal to
\* f(i div (q/p)) * (q/p); if f returns a value >= p for some sample the call
\* fails with FunctionRangeError and returns no table.  For every q.
C8_TableContents ==
    (LUTCalled /\ IsPowerOfTwo(last.args.p)) =>
        LET q == last.args.q
            pp == last.args.p
            f == last.args.f
        IN
        /\ last.out.evaluated \subseteq 0..(pp - 1)
        /\ (MapsIntoZp(f, pp) =>
               /\ last.err = Ok
               /\ Len(last.out.table) = q
               /\ \A i \in 0..(q - 1) :
                      last.out.table[i + 1] = f[i \div (q \div pp)] * (q \div pp))
        /\ (~MapsIntoZp(f, pp) =>
               last.err = FunctionRangeError /\ last.out.table = <<>>)

-----------------------------------------------------------------------------
(* Properties of concurrent evaluation, under SpecConc *)

EvalCalled == last.op \in {"EvalBinGate", "EvalFunc"}

\* C11: while a BTKeyGen is in progress (the multi-base sweep included), a gate
\* or function evaluation on the same context, keys existing, observes the
\* resolved gadget base, and that base is the one the active bootstrapping key
\* was generated under.
C11_EvalObservesResolvedBase ==
    (EvalCalled /\ resolves = 1 /\ last.out.during # "idle" /\ last.out.key.gen) =>
        /\ last.out.baseG = last.resolved.baseG
        /\ last.out.key.params.baseG = last.out.baseG

-----------------------------------------------------------------------------
(* Properties of keys across resolutions and key generations, under Spec *)

\* a key stored under base b was generated under the parameters p
GeneratedUnder(key, p, b) == key.gen /\ key.params = Change_BaseG(p, b)

\* C12: after any resolutions and key generations, when a BTKeyGen returns,
\* every entry of the key map and the active key were generated under the
\* current parameters, and the flag the call consulted is the one of the most
\* recent resolution.
C12_KeysMatchContext ==
    (BTKeyGenReturned /\ last.err = Ok) =>
        /\ \A b \in DOMAIN m_BTKey_map : GeneratedUnder(m_BTKey_map[b], m_params, b)
        /\ GeneratedUnder(m_BTKey, m_params, m_params.baseG)
        /\ last.pre.timeOpt = last.resolved.flag

KeyGenOps == {"BTKeyGen", "BTKeyGenTest", "MultiPartyKeyGen", "MultipartyBTKeyGen"}

Overwriting == {"BTKeyGenTest", "MultiPartyKeyGen", "MultipartyBTKeyGen"}

\* the active key is the map entry under the gadget base of the parameters
ActiveIsEntry(params, map, key) == params.baseG \in DOMAIN map /\ key = map[params.baseG]

\* C13: on one resolved context, after a key-generation operation (one that
\* returned, or any one once the property held) the active key is the map
\* entry under the current gadget base; BTKeyGenTest and the multiparty
\* operations store a freshly generated key there and change no other entry.
C13_ActiveKeyIsMapEntry ==
    (last.op \in KeyGenOps /\ resolves = 1) =>
        /\ (last.err = Ok \/ ActiveIsEntry(last.pre.params, last.pre.map, last.pre.key))
               => ActiveIsEntry(m_params, m_BTKey_map, m_BTKey)
        /\ (last.op \in Overwriting /\ last.err = Ok) =>
               /\ m_BTKey.gen /\ m_BTKey.id = keygenCalls
               /\ m_BTKey.id > last.pre.key.id
               /\ \A b \in DOMAIN last.pre.map \ {m_params.baseG} :
                      b \in DOMAIN m_BTKey_map /\ m_BTKey_map[b] = last.pre.map[b]
               /\ DOMAIN m_BTKey_map = DOMAIN last.pre.map \cup {m_params.baseG}

====
